---- MODULE Spec2Model ----
(***************************************************************************)
(* Model of src/src/lambda_handler.py: one Lambda invocation downloads a   *)
(* CSV batch, aggregates it into an account report, persists rows and      *)
(* report in one database transaction and dispatches the report to a queue *)
(* with a bounded retry.                                                   *)
(***************************************************************************)
EXTENDS Integers, Sequences, FiniteSets, TLC

\* ------------------------------------------------------------------ bounds
MaxRows == 2
MaxKeyLen == 5
MaxBatch == 3

\* --------------------------------------------------------- Python values
\* None, str and bool values of the variables that may hold None.
None == [py |-> "None"]
Str(s) == [py |-> "str", v |-> s]
Bool(b) == [py |-> "bool", v |-> b]

\* Python truthiness (`if not x`, `if x`).
Truthy(x) ==
    CASE x.py = "None" -> FALSE
      [] x.py = "bool" -> x.v
      [] x.py = "str" -> Len(x.v) > 0

\* ------------------------------------------------------------ object keys
\* An object key is a sequence of characters.
Keys ==
    { <<"4", "_", "t", "_", "r">>,
      <<"b", "-", "n">>,
      <<"_", "t", "_", "r">>,
      <<"4", "_", "t", "_", "r", "_", "x">> }

RECURSIVE Split(_)
\* key.split("_")
Split(s) ==
    IF \A i \in 1..Len(s) : s[i] # "_"
    THEN <<s>>
    ELSE LET i == CHOOSE j \in 1..Len(s) :
                      s[j] = "_" /\ \A k \in 1..(j - 1) : s[k] # "_"
         IN <<SubSeq(s, 1, i - 1)>> \o Split(SubSeq(s, i + 1, Len(s)))

\* get_account_number accepting every key of at least 3 segments.
get_account_number_at_least_3(k) ==
    LET parts == Split(k)
    IN IF Len(parts) >= 3 THEN Str(parts[1]) ELSE None

get_account_number(key) ==
    LET parts == Split(key)
    IN IF Len(parts) = 3 THEN Str(parts[1]) ELSE None

\* ------------------------------------------------------------- CSV fields
\* The decimal texts float(text) accepts, and their values in thousandths.
FloatTable ==
    [s \in {"-10.00", "5.00", "0.00", "-20.00", "-5.00", "10.004", "0.1"} |->
        CASE s = "-10.00" -> -10000
          [] s = "5.00" -> 5000
          [] s = "0.00" -> 0
          [] s = "-20.00" -> -20000
          [] s = "-5.00" -> -5000
          [] s = "10.004" -> 10004
          [] s = "0.1" -> 100]

\* datetime.strptime(text, "%Y-%m-%d %H:%M:%S"): year and month.
DateTable ==
    [s \in {"2023-01-15 10:00:00", "2024-03-02 08:30:00",
            "2023-03-10 12:00:00", "2023-07-20 09:15:00"} |->
        CASE s = "2023-01-15 10:00:00" -> [year |-> 2023, month |-> 1]
          [] s = "2024-03-02 08:30:00" -> [year |-> 2024, month |-> 3]
          [] s = "2023-03-10 12:00:00" -> [year |-> 2023, month |-> 3]
          [] s = "2023-07-20 09:15:00" -> [year |-> 2023, month |-> 7]]

FloatOk(s) == s \in DOMAIN FloatTable
DateOk(s) == s \in DOMAIN DateTable

\* record[i] with Python's 0-based index.
Field(record, i) == record[i + 1]
HasField(record, i) == Len(record) >= i + 1

HeaderRow == <<"account", "date", "amount", "id">>

RowVocab ==
    { HeaderRow,
      <<"4", "2023-01-15 10:00:00", "-10.00", "tx1">>,
      <<"4", "2024-03-02 08:30:00", "5.00", "tx2">>,
      <<"4", "2023-01-15 10:00:00", "abc", "tx3">>,
      <<"4", "15/01/2023", "5.00", "tx4">>,
      <<"4", "2023-01-15 10:00:00", "5.00">>,
      <<"4">> }

\* The parsed CSV files an object may hold: up to MaxRows + 1 rows.
Files == UNION { [1..n -> RowVocab] : n \in 0..(MaxRows + 1) }

looks_like_headers(first_row) ==
    \A i \in 1..Len(first_row) : first_row[i] \in STRING

\* ----------------------------------------------------------- Python floats
\* A float is an IEEE 754 double: value = (-1)^neg * bits * 2^exp, where bits
\* is a binary numeral, most significant bit first, of at most Precision
\* bits, without leading or trailing zeros; 0.0 has no bits.
Precision == 53

Zero == [neg |-> FALSE, exp |-> 0, bits |-> <<>>]

Zeros(n) == [i \in 1..n |-> 0]

\* b without its leading zero bits.
StripLeading(b) ==
    IF \A i \in 1..Len(b) : b[i] = 0 THEN <<>>
    ELSE SubSeq(b, CHOOSE i \in 1..Len(b) :
                       b[i] = 1 /\ \A j \in 1..(i - 1) : b[j] = 0,
                Len(b))

\* The number of zero bits at the end of b.
TrailingZeros(b) ==
    IF \A i \in 1..Len(b) : b[i] = 0 THEN Len(b)
    ELSE Len(b) - (CHOOSE i \in 1..Len(b) :
                       b[i] = 1 /\ \A j \in (i + 1)..Len(b) : b[j] = 0)

\* The carry of x + y + carry into bit i: the nearest bit behind i that does
\* not pass a carry on makes one, or every bit behind i passes carry on.
CarryInto(x, y, i, carry) ==
    IF \E j \in (i + 1)..Len(x) : x[j] + y[j] # 1
    THEN LET z == CHOOSE j \in (i + 1)..Len(x) :
                      /\ x[j] + y[j] # 1
                      /\ \A k \in (i + 1)..(j - 1) : x[k] + y[k] = 1
         IN IF x[z] + y[z] = 2 THEN 1 ELSE 0
    ELSE carry

\* x + y + carry for bits 1..i of x and y, which have the same length i: the
\* result has one bit more.
AddBits(x, y, i, carry) ==
    [k \in 1..(i + 1) |->
        ((IF k = 1 THEN 0 ELSE x[k - 1] + y[k - 1])
             + CarryInto(x, y, k - 1, carry)) % 2]

\* The borrow of x - y - borrow from bit i: the nearest bit behind i where x
\* and y differ has x below y, or they differ nowhere behind i.
BorrowFrom(x, y, i, borrow) ==
    IF \E j \in (i + 1)..Len(x) : x[j] # y[j]
    THEN LET z == CHOOSE j \in (i + 1)..Len(x) :
                      /\ x[j] # y[j]
                      /\ \A k \in (i + 1)..(j - 1) : x[k] = y[k]
         IN IF x[z] < y[z] THEN 1 ELSE 0
    ELSE borrow

\* x - y - borrow for bits 1..i of x >= y, which have the same length i.
SubBits(x, y, i, borrow) ==
    [k \in 1..i |-> (x[k] - y[k] - BorrowFrom(x, y, k, borrow) + 2) % 2]

\* x > y for numerals of the same length.
GreaterBits(x, y) ==
    \E i \in 1..Len(x) : x[i] > y[i] /\ \A j \in 1..(i - 1) : x[j] = y[j]

\* The float nearest to (-1)^neg * b * 2^e, where sticky tells that the exact
\* value is a little larger in magnitude than b * 2^e: round to Precision
\* bits, ties to even.
RoundFloat(neg, b, e, sticky) ==
    LET m == StripLeading(b)
        extra == Len(m) - Precision
        kept == IF extra > 0 THEN SubSeq(m, 1, Precision) ELSE m
        rest == IF extra > 0 THEN SubSeq(m, Precision + 1, Len(m)) ELSE <<>>
        up == /\ extra > 0
              /\ rest[1] = 1
              /\ \/ sticky
                 \/ \E i \in 2..Len(rest) : rest[i] = 1
                 \/ kept[Precision] = 1
        rounded ==
            IF up
            THEN StripLeading(AddBits(kept, Zeros(Len(kept)), Len(kept), 1))
            ELSE kept
        tz == TrailingZeros(rounded)
    IN IF Len(rounded) = 0 THEN Zero
       ELSE [neg |-> neg,
             exp |-> e + (IF extra > 0 THEN extra ELSE 0) + tz,
             bits |-> SubSeq(rounded, 1, Len(rounded) - tz)]

\* x + y of two floats.
FloatAdd(x, y) ==
    IF Len(x.bits) = 0 THEN y
    ELSE IF Len(y.bits) = 0 THEN x
    ELSE LET e == IF x.exp < y.exp THEN x.exp ELSE y.exp
             xs == x.bits \o Zeros(x.exp - e)
             ys == y.bits \o Zeros(y.exp - e)
             n == IF Len(xs) > Len(ys) THEN Len(xs) ELSE Len(ys)
             xa == Zeros(n - Len(xs)) \o xs
             ya == Zeros(n - Len(ys)) \o ys
         IN IF x.neg = y.neg
            THEN RoundFloat(x.neg, AddBits(xa, ya, n, 0), e, FALSE)
            ELSE IF GreaterBits(xa, ya)
            THEN RoundFloat(x.neg, SubBits(xa, ya, n, 0), e, FALSE)
            ELSE IF GreaterBits(ya, xa)
            THEN RoundFloat(y.neg, SubBits(ya, xa, n, 0), e, FALSE)
            ELSE Zero

\* The binary numeral of the natural number n.
RECURSIVE NatBits(_)
NatBits(n) ==
    IF n = 0 THEN <<>> ELSE Append(NatBits(n \div 2), n % 2)

\* 2^1, 2^2, ..., 2^len modulo n.
RECURSIVE Powers(_, _)
Powers(len, n) ==
    IF len = 0 THEN <<>>
    ELSE IF len = 1 THEN <<2 % n>>
    ELSE LET p == Powers(len - len \div 2, n)
         IN p \o [j \in 1..(len \div 2) |-> (p[Len(p)] * p[j]) % n]

\* The remainders modulo n of the numerals d[lo..lo], d[lo..lo + 1], ...,
\* d[lo..hi], where pow holds the powers of 2 modulo n.
RECURSIVE Remainders(_, _, _, _, _)
Remainders(d, lo, hi, n, pow) ==
    IF lo = hi THEN <<d[lo] % n>>
    ELSE LET mid == (lo + hi) \div 2
             left == Remainders(d, lo, mid, n, pow)
             right == Remainders(d, mid + 1, hi, n, pow)
         IN left \o [j \in 1..(hi - mid) |->
                        (left[mid - lo + 1] * pow[j] + right[j]) % n]

\* The binary expansion of b / n, by long division, with enough fraction bits
\* to round it to Precision bits: the bits, the number of fraction bits and
\* the remainder.
Quotient(b, n) ==
    LET count == Precision + 1 + Len(NatBits(n))
        d == b \o Zeros(count)
        r == Remainders(d, 1, Len(d), n, Powers(Len(d), n))
    IN [bits |-> [i \in 1..Len(d) |->
                     IF 2 * (IF i = 1 THEN 0 ELSE r[i - 1]) + d[i] >= n
                     THEN 1 ELSE 0],
        count |-> count,
        rem |-> r[Len(d)]]

\* The float nearest to n thousandths.
Float(n) ==
    LET q == Quotient(NatBits(IF n < 0 THEN -n ELSE n), 1000)
    IN RoundFloat(n < 0, q.bits, -q.count, q.rem # 0)

\* float(text)
float == [text \in DOMAIN FloatTable |-> Float(FloatTable[text])]

\* x + y without rounding.
ExactAdd(x, y) ==
    IF Len(x.bits) = 0 THEN y
    ELSE IF Len(y.bits) = 0 THEN x
    ELSE LET e == IF x.exp < y.exp THEN x.exp ELSE y.exp
             xs == x.bits \o Zeros(x.exp - e)
             ys == y.bits \o Zeros(y.exp - e)
             n == IF Len(xs) > Len(ys) THEN Len(xs) ELSE Len(ys)
             xa == Zeros(n - Len(xs)) \o xs
             ya == Zeros(n - Len(ys)) \o ys
         IN IF x.neg = y.neg
            THEN [neg |-> x.neg, exp |-> e,
                  bits |-> StripLeading(AddBits(xa, ya, n, 0))]
            ELSE IF GreaterBits(xa, ya)
            THEN [neg |-> x.neg, exp |-> e,
                  bits |-> StripLeading(SubBits(xa, ya, n, 0))]
            ELSE IF GreaterBits(ya, xa)
            THEN [neg |-> y.neg, exp |-> e,
                  bits |-> StripLeading(SubBits(ya, xa, n, 0))]
            ELSE Zero

\* The numeral of 100 * b = 64 * b + 32 * b + 4 * b.
Times100(b) ==
    LET n == Len(b) + 6
        x64 == b \o Zeros(6)
        x32 == <<0>> \o b \o Zeros(5)
        x4 == Zeros(4) \o b \o Zeros(2)
        s == AddBits(x64, x32, n, 0)
    IN StripLeading(AddBits(s, <<0>> \o x4, n + 1, 0))

\* The natural number of the numeral b.
RECURSIVE BitsNat(_)
BitsNat(b) ==
    IF Len(b) = 0 THEN 0
    ELSE 2 * BitsNat(SubSeq(b, 1, Len(b) - 1)) + b[Len(b)]

\* ------------------------------------------------------------ aggregation
\* The exception a float(record[2]) raises, "" when it raises none.
FloatError(record) ==
    IF ~HasField(record, 2) THEN "IndexError"
    ELSE IF ~FloatOk(Field(record, 2)) THEN "ValueError"
    ELSE ""

\* The exception datetime.strptime(record[1], ...) raises, "" when none.
DateError(record) ==
    IF ~HasField(record, 1) THEN "IndexError"
    ELSE IF ~DateOk(Field(record, 1)) THEN "ValueError"
    ELSE ""

\* The decimal value of record[2], in thousandths.
Amount(record) == FloatTable[Field(record, 2)]

\* float(record[2])
FloatAmount(record) == float[Field(record, 2)]

\* sum(floats): the floats are added one by one, from the left, to 0.
RECURSIVE SumFloats(_, _)
SumFloats(acc, data) ==
    IF Len(data) = 0 THEN acc
    ELSE SumFloats(FloatAdd(acc, FloatAmount(Head(data))), Tail(data))

get_total_balance(data) ==
    IF Len(data) < 1 THEN Zero ELSE SumFloats(Zero, data)

\* The exact sum of the floats of data, as statistics.mean adds them: bits
\* may have any length and end in zeros.
RECURSIVE ExactSum(_, _)
ExactSum(acc, data) ==
    IF Len(data) = 0 THEN acc
    ELSE ExactSum(ExactAdd(acc, FloatAmount(Head(data))), Tail(data))

\* statistics.mean(floats): the float nearest to the exact sum divided by the
\* number of floats.
mean(data) ==
    LET total == ExactSum(Zero, data)
        q == Quotient(total.bits, Len(data))
    IN RoundFloat(total.neg, q.bits, total.exp - q.count, q.rem # 0)

\* round(x, 2): the float nearest to the hundredth nearest to the exact
\* value of x, a tie going to the even hundredth.
round2(x) ==
    LET p == Times100(x.bits)
        cut == IF x.exp < 0 THEN -x.exp ELSE 0
        padded == Zeros(cut - Len(p)) \o p
        whole == SubSeq(padded, 1, Len(padded) - cut)
                     \o Zeros(IF x.exp > 0 THEN x.exp ELSE 0)
        frac == SubSeq(padded, Len(padded) - cut + 1, Len(padded))
        half == Len(frac) > 0 /\ frac[1] = 1
        above == half /\ \E i \in 2..Len(frac) : frac[i] = 1
        cents == IF above \/ (half /\ BitsNat(whole) % 2 = 1)
                 THEN BitsNat(whole) + 1
                 ELSE BitsNat(whole)
    IN IF cents = 0 THEN [Zero EXCEPT !.neg = x.neg]
       ELSE Float(IF x.neg THEN -10 * cents ELSE 10 * cents)

\* x < 0 and x > 0 of a float.
Negative(x) == x.neg /\ Len(x.bits) > 0
Positive(x) == ~x.neg /\ Len(x.bits) > 0

Debits(data) == SelectSeq(data, LAMBDA record : Negative(FloatAmount(record)))
Credits(data) == SelectSeq(data, LAMBDA record : Positive(FloatAmount(record)))

\* get_avg_amount_by_type counting a zero amount as a debit.
get_avg_amount_by_type_zero_debit(data, type) ==
    LET debits ==
            SelectSeq(data, LAMBDA record : ~Positive(FloatAmount(record)))
    IN IF type = "None" THEN Zero
       ELSE IF type = "debit" /\ Len(debits) > 0
            THEN round2(mean(debits))
       ELSE IF type = "credit" /\ Len(Credits(data)) > 0
            THEN round2(mean(Credits(data)))
       ELSE Zero

get_avg_amount_by_type(data, type) ==
    IF type = "None" THEN Zero
    ELSE IF type = "debit" /\ Len(Debits(data)) > 0
         THEN round2(mean(Debits(data)))
    ELSE IF type = "credit" /\ Len(Credits(data)) > 0
         THEN round2(mean(Credits(data)))
    ELSE Zero

\* grouped_dates after one more record: the years and, inside a year, the
\* months keep the order of their first appearance (dict insertion order).
GroupInsert(grouped, record) ==
    LET date == DateTable[Field(record, 1)]
        withYear ==
            IF \E i \in 1..Len(grouped) : grouped[i].year = date.year
            THEN grouped
            ELSE Append(grouped, [year |-> date.year, months |-> <<>>])
        yi == CHOOSE i \in 1..Len(withYear) : withYear[i].year = date.year
        months == withYear[yi].months
        withMonth ==
            IF \E j \in 1..Len(months) : months[j].month = date.month
            THEN months
            ELSE Append(months, [month |-> date.month, records |-> <<>>])
        mi == CHOOSE j \in 1..Len(withMonth) : withMonth[j].month = date.month
        filled ==
            [withMonth EXCEPT ![mi].records = Append(@, record)]
    IN [withYear EXCEPT ![yi].months = filled]

RECURSIVE GroupDates(_, _)
GroupDates(grouped, data) ==
    IF Len(data) = 0 THEN grouped
    ELSE GroupDates(GroupInsert(grouped, Head(data)), Tail(data))

MonthStats(records) ==
    [month_transactions_count |-> Len(records),
     debit_transactions_count |-> Len(Debits(records)),
     debit_transaction_month_avg |-> get_avg_amount_by_type(records, "debit"),
     credit_transactions_count |-> Len(Credits(records)),
     credit_transaction_month_avg |-> get_avg_amount_by_type(records, "credit")]

\* get_monthly_transactions keeping one year only.
get_monthly_transactions_one_year(data) ==
    LET grouped == GroupDates(<<>>, data)
    IN [i \in 1..(IF Len(grouped) > 0 THEN 1 ELSE 0) |->
           [year |-> grouped[i].year,
            months |->
                [j \in 1..Len(grouped[i].months) |->
                    [month |-> grouped[i].months[j].month,
                     stats |-> MonthStats(grouped[i].months[j].records)]]]]

get_monthly_transactions(data) ==
    LET grouped == GroupDates(<<>>, data)
    IN [i \in 1..Len(grouped) |->
           [year |-> grouped[i].year,
            months |->
                [j \in 1..Len(grouped[i].months) |->
                    [month |-> grouped[i].months[j].month,
                     stats |-> MonthStats(grouped[i].months[j].records)]]]]

\* The first exception get_account_report raises on data, "" when none:
\* the amounts are parsed first (get_total_balance), the dates last.
AggregationError(data) ==
    IF \E i \in 1..Len(data) : FloatError(data[i]) # ""
    THEN FloatError(data[CHOOSE i \in 1..Len(data) :
                             /\ FloatError(data[i]) # ""
                             /\ \A k \in 1..(i - 1) : FloatError(data[k]) = ""])
    ELSE IF \E i \in 1..Len(data) : DateError(data[i]) # ""
    THEN DateError(data[CHOOSE i \in 1..Len(data) :
                            /\ DateError(data[i]) # ""
                            /\ \A k \in 1..(i - 1) : DateError(data[k]) = ""])
    ELSE ""

EmptyReport == [empty |-> TRUE]

get_account_report(data, account_number) ==
    IF account_number = None THEN EmptyReport
    ELSE [account_number |-> account_number,
          total_balance |-> get_total_balance(data),
          average_debit_amount |-> get_avg_amount_by_type(data, "debit"),
          average_credit_amount |-> get_avg_amount_by_type(data, "credit"),
          monthly_transactions |-> get_monthly_transactions(data)]

\* json.dumps(value): the text of the value.
json_dumps(value) == [py |-> "str", json |-> value]

\* ------------------------------------------------------------------ state
VARIABLES
    pc,                  \* position of the invocation in transaction_processor
    key,                 \* object key of the event
    file,                \* the downloaded object, None when the download failed
    data_rows,
    account_number,
    account_report,
    persisted_data,      \* what persist_to_db returned
    message_body,
    tries,               \* send_message's tries argument
    message_id,          \* what send_message returned
    outcome,             \* how lambda_handler ended, as its caller sees it
    transactions_table,  \* committed rows of table transactions
    reports_table,       \* committed rows of table reports
    pending,             \* rows written inside the open database transaction
    queue,               \* messages the queue accepted
    db0,                 \* the committed tables when persist_to_db was entered
    dbExecs,             \* connection.execute calls of this invocation
    txInserted,          \* the transactions insert of this invocation succeeded
    reportFailed,        \* the report insert of this invocation failed
    dbError,             \* the exception a database call raised, "" when none
    handler,             \* the except clause of persist_to_db that ran, "" when none
    sqsCalls,            \* sqs.send_message calls of this invocation
    sqsFailures          \* those of them that raised

vars ==
    <<pc, key, file, data_rows, account_number, account_report,
      persisted_data, message_body, tries, message_id, outcome,
      transactions_table, reports_table, pending, queue, db0, dbExecs,
      txInserted, reportFailed, dbError, handler, sqsCalls, sqsFailures>>

local_vars ==
    <<key, file, data_rows, account_number, account_report, persisted_data,
      message_body, tries, message_id>>

db_vars == <<transactions_table, reports_table, pending>>

persist_ghosts == <<db0, dbExecs, txInserted, reportFailed, dbError, handler>>

sqs_ghosts == <<sqsCalls, sqsFailures>>

Bytes(f) == [py |-> "bytes", v |-> f]

NoPending == [transactions |-> <<>>, reports |-> <<>>]

Running == [kind |-> "running"]
Returned(value) == [kind |-> "return", value |-> value]
Raised(exc) == [kind |-> "raise", exc |-> exc]

max_tries == 3

\* s3.get_object and Body.read(): the object's rows, or an exception that is
\* logged and leaves file = None.
download ==
    /\ pc = "download"
    /\ \/ \E f \in Files : file' = Bytes(f)
       \/ file' = None
    /\ pc' = "normalize"
    /\ UNCHANGED <<key, data_rows, account_number, account_report,
                   persisted_data, message_body, tries, message_id, outcome,
                   db_vars, queue, persist_ghosts, sqs_ghosts>>

\* The data rows transaction_processor keeps of the parsed file.
DataRows(rows) ==
    IF looks_like_headers(Head(rows)) THEN Tail(rows)
    ELSE <<Head(rows)>> \o Tail(rows)

\* The exception that ends transaction_processor before persist_to_db is
\* called, "" when it gets there.
NormalizeError(f, k) ==
    IF f = None THEN "AttributeError"
    ELSE IF Len(f.v) = 0 THEN "StopIteration"
    ELSE IF ~looks_like_headers(Head(f.v)) THEN "AttributeError"
    ELSE IF get_account_number(k) = None THEN ""
    ELSE AggregationError(DataRows(f.v))

\* Decoding and parsing of the file, header detection, account number and
\* account report.
normalize ==
    /\ pc = "normalize"
    /\ IF NormalizeError(file, key) # ""
       THEN /\ outcome' = Raised(NormalizeError(file, key))
            /\ pc' = "raised"
            /\ UNCHANGED <<data_rows, account_number, account_report>>
       ELSE /\ data_rows' = DataRows(file.v)
            /\ account_number' = get_account_number(key)
            /\ account_report' =
                   get_account_report(DataRows(file.v), get_account_number(key))
            /\ pc' = "persist"
            /\ UNCHANGED outcome
    /\ UNCHANGED <<key, file, persisted_data, message_body, tries,
                   message_id, db_vars, queue, persist_ghosts, sqs_ghosts>>

\* ---------------------------------------------------------- persist_to_db
transactions_to_insert(account, transactions) ==
    [i \in 1..Len(transactions) |->
        [account_number |-> account,
         amount |-> Field(transactions[i], 2),
         transaction_id |-> Field(transactions[i], 3),
         date |-> Field(transactions[i], 1)]]

report_to_insert(report) ==
    [account_number |-> report.account_number,
     total_balance |-> report.total_balance,
     average_debit_amount |-> report.average_debit_amount,
     average_credit_amount |-> report.average_credit_amount,
     monthly_transactions |-> json_dumps(report.monthly_transactions)]

\* ParametersError reading the report with defaults for its missing keys: the
\* empty report raises nothing.
ParametersError_no_KeyError(transactions, report) ==
    IF \E i \in 1..Len(transactions) : ~HasField(transactions[i], 3)
    THEN "IndexError"
    ELSE ""

\* The exception raised while the parameters of the two inserts are built,
\* "" when none.
ParametersError(transactions, report) ==
    IF \E i \in 1..Len(transactions) : ~HasField(transactions[i], 3)
    THEN "IndexError"
    ELSE IF report = EmptyReport THEN "KeyError"
    ELSE ""

\* connection.rollback(): the rows written in the open transaction are
\* discarded.
Rollback == pending' = NoPending

\* The exceptions a database call raises: a constraint violation or a
\* connectivity failure. Both classes derive from Exception.
DbExceptions == {"IntegrityError", "OperationalError"}

IsException(exc) == exc \in DbExceptions \cup {"IndexError", "KeyError"}

\* The except clause of the inner try statement that handles exc: the
\* clauses are tried in the order they are written.
InnerHandler(exc) ==
    IF IsException(exc) THEN "except Exception"
    ELSE IF exc = "IntegrityError" THEN "except IntegrityError"
    ELSE ""

OuterHandler == "outer except Exception"

\* The exceptions the insert of rows raises: a constraint is violated by a
\* row, so only a batch with rows violates one.
InsertExceptions(rows) ==
    IF Len(rows) = 0 THEN {"OperationalError"} ELSE DbExceptions

\* What persist_to_db returns once the clause has run: the first inner
\* clause has no return statement.
HandlerResult(clause) ==
    CASE clause = "except Exception" -> None
      [] clause = "except IntegrityError" -> Bool(FALSE)
      [] clause = OuterHandler -> Bool(FALSE)

\* `with engine.begin() as connection` and the parameters of the inserts.
\* A failure to connect, or an exception while the parameters are built,
\* reaches the outer handler, which returns False.
persist_begin ==
    /\ pc = "persist"
    /\ db0' = [transactions |-> transactions_table, reports |-> reports_table]
    /\ \/ /\ ParametersError(data_rows, account_report) = ""
          /\ pc' = "exec_transactions"
          /\ UNCHANGED persisted_data
          /\ UNCHANGED <<dbError, handler>>
       \/ /\ ParametersError(data_rows, account_report) # ""
          /\ handler' = OuterHandler
          /\ persisted_data' = HandlerResult(OuterHandler)
          /\ pc' = "persisted"
          /\ UNCHANGED dbError
       \/ /\ dbError' = "OperationalError"
          /\ handler' = OuterHandler
          /\ persisted_data' = HandlerResult(OuterHandler)
          /\ pc' = "persisted"
    /\ pending' = NoPending
    /\ UNCHANGED <<key, file, data_rows, account_number,
                   account_report, message_body, tries, message_id, outcome,
                   transactions_table, reports_table, queue, dbExecs,
                   txInserted, reportFailed, sqs_ghosts>>

\* connection.execute(transactions_query, ...): the rows are written inside
\* the transaction, or the insert raises; the handler rolls back and
\* persist_to_db ends without a return statement.
exec_transactions ==
    /\ pc = "exec_transactions"
    /\ dbExecs' = dbExecs + 1
    /\ \/ /\ pending' = [pending EXCEPT !.transactions =
                            transactions_to_insert(account_number, data_rows)]
          /\ txInserted' = TRUE
          /\ pc' = "exec_report"
          /\ UNCHANGED <<persisted_data, dbError, handler>>
       \/ /\ \E exc \in InsertExceptions(data_rows) :
                /\ dbError' = exc
                /\ handler' = InnerHandler(exc)
                /\ persisted_data' = HandlerResult(InnerHandler(exc))
          /\ Rollback
          /\ pc' = "persisted"
          /\ UNCHANGED txInserted
    /\ UNCHANGED <<key, file, data_rows, account_number,
                   account_report, message_body, tries, message_id, outcome,
                   transactions_table, reports_table, queue, db0,
                   reportFailed, sqs_ghosts>>

\* exec_report with a handler that does not roll back: the with block is
\* then left normally and commits what the transaction holds.
exec_report_no_rollback ==
    /\ pc = "exec_report"
    /\ dbExecs' = dbExecs + 1
    /\ \/ /\ pending' = [pending EXCEPT !.reports =
                            <<report_to_insert(account_report)>>]
          /\ pc' = "commit"
          /\ UNCHANGED <<persisted_data, reportFailed, transactions_table,
                         reports_table, dbError, handler>>
       \/ /\ \E exc \in DbExceptions :
                /\ dbError' = exc
                /\ handler' = InnerHandler(exc)
                /\ persisted_data' = HandlerResult(InnerHandler(exc))
          /\ transactions_table' = transactions_table \o pending.transactions
          /\ reports_table' = reports_table \o pending.reports
          /\ pending' = NoPending
          /\ reportFailed' = TRUE
          /\ pc' = "persisted"
    /\ UNCHANGED <<key, file, data_rows, account_number,
                   account_report, message_body, tries, message_id, outcome,
                   queue, db0, txInserted, sqs_ghosts>>

\* connection.execute(report_query, ...), as above.
exec_report ==
    /\ pc = "exec_report"
    /\ dbExecs' = dbExecs + 1
    /\ \/ /\ pending' = [pending EXCEPT !.reports =
                            <<report_to_insert(account_report)>>]
          /\ pc' = "commit"
          /\ UNCHANGED <<persisted_data, reportFailed, dbError, handler>>
       \/ /\ \E exc \in DbExceptions :
                /\ dbError' = exc
                /\ handler' = InnerHandler(exc)
                /\ persisted_data' = HandlerResult(InnerHandler(exc))
          /\ Rollback
          /\ reportFailed' = TRUE
          /\ pc' = "persisted"
    /\ UNCHANGED <<key, file, data_rows, account_number,
                   account_report, message_body, tries, message_id, outcome,
                   transactions_table, reports_table, queue, db0, txInserted,
                   sqs_ghosts>>

\* `return True` leaves the with block, which commits; a failing commit
\* writes nothing and reaches the outer handler, which returns False.
commit ==
    /\ pc = "commit"
    /\ \/ /\ transactions_table' = transactions_table \o pending.transactions
          /\ reports_table' = reports_table \o pending.reports
          /\ persisted_data' = Bool(TRUE)
          /\ UNCHANGED <<dbError, handler>>
       \/ /\ \E exc \in DbExceptions : dbError' = exc
          /\ handler' = OuterHandler
          /\ persisted_data' = HandlerResult(OuterHandler)
          /\ UNCHANGED <<transactions_table, reports_table>>
    /\ pending' = NoPending
    /\ pc' = "persisted"
    /\ UNCHANGED <<key, file, data_rows, account_number,
                   account_report, message_body, tries, message_id, outcome,
                   queue, db0, dbExecs, txInserted, reportFailed, sqs_ghosts>>

\* transaction_processor after persist_to_db returned: the result is only
\* printed, the report is serialised and send_message is entered.
after_persist ==
    /\ pc = "persisted"
    /\ message_body' = json_dumps(account_report)
    /\ tries' = 1
    /\ pc' = "send"
    /\ UNCHANGED <<key, file, data_rows, account_number,
                   account_report, persisted_data, message_id, outcome,
                   db_vars, queue, persist_ghosts, sqs_ghosts>>

\* ----------------------------------------------------------- send_message
\* The identifier the queue assigns to its next message.
NextMessageId == Str(<<"m", Len(queue) + 1>>)

\* send_message with the comparison tries <= max_tries + 1: one retry more.
send_message_extra_retry ==
    /\ pc = "send"
    /\ sqsCalls' = sqsCalls + 1
    /\ \/ /\ queue' = Append(queue, [MessageId |-> NextMessageId,
                                     MessageBody |-> message_body])
          /\ message_id' = NextMessageId
          /\ pc' = "sent"
          /\ UNCHANGED <<tries, sqsFailures, outcome>>
       \/ /\ sqsFailures' = sqsFailures + 1
          /\ IF tries <= max_tries + 1
             THEN /\ tries' = tries + 1
                  /\ UNCHANGED <<pc, message_id>>
             ELSE /\ message_id' = None
                  /\ pc' = "sent"
                  /\ UNCHANGED tries
          /\ UNCHANGED <<queue, outcome>>
    /\ UNCHANGED <<key, file, data_rows, account_number,
                   account_report, persisted_data, message_body,
                   db_vars, persist_ghosts>>

\* send_message reading a key the response does not have: the KeyError of an
\* accepted message is handled like a failed call and the message is sent
\* again.
send_message_resend ==
    /\ pc = "send"
    /\ sqsCalls' = sqsCalls + 1
    /\ \/ /\ queue' = Append(queue, [MessageId |-> NextMessageId,
                                     MessageBody |-> message_body])
          /\ UNCHANGED sqsFailures
       \/ /\ sqsFailures' = sqsFailures + 1
          /\ UNCHANGED queue
    /\ IF tries <= max_tries
       THEN /\ tries' = tries + 1
            /\ UNCHANGED <<pc, message_id>>
       ELSE /\ message_id' = None
            /\ pc' = "sent"
            /\ UNCHANGED tries
    /\ UNCHANGED <<key, file, data_rows, account_number,
                   account_report, persisted_data, message_body, outcome,
                   db_vars, persist_ghosts>>

\* send_message raising the last exception again once the retries are used
\* up: the exception leaves transaction_processor and lambda_handler.
send_message_reraise ==
    /\ pc = "send"
    /\ sqsCalls' = sqsCalls + 1
    /\ \/ /\ queue' = Append(queue, [MessageId |-> NextMessageId,
                                     MessageBody |-> message_body])
          /\ message_id' = NextMessageId
          /\ pc' = "sent"
          /\ UNCHANGED <<tries, sqsFailures, outcome>>
       \/ /\ sqsFailures' = sqsFailures + 1
          /\ IF tries <= max_tries
             THEN /\ tries' = tries + 1
                  /\ UNCHANGED <<pc, message_id, outcome>>
             ELSE /\ outcome' = Raised("Exception")
                  /\ pc' = "raised"
                  /\ UNCHANGED <<tries, message_id>>
          /\ UNCHANGED queue
    /\ UNCHANGED <<key, file, data_rows, account_number,
                   account_report, persisted_data, message_body,
                   db_vars, persist_ghosts>>

\* One call of sqs.send_message inside send_message: the queue accepts the
\* message and its MessageId is returned, or the call raises and
\* send_message calls itself again while tries <= max_tries.
send_message ==
    /\ pc = "send"
    /\ sqsCalls' = sqsCalls + 1
    /\ \/ /\ queue' = Append(queue, [MessageId |-> NextMessageId,
                                     MessageBody |-> message_body])
          /\ message_id' = NextMessageId
          /\ pc' = "sent"
          /\ UNCHANGED <<tries, sqsFailures>>
       \/ /\ sqsFailures' = sqsFailures + 1
          /\ IF tries <= max_tries
             THEN /\ tries' = tries + 1
                  /\ UNCHANGED <<pc, message_id>>
             ELSE /\ message_id' = None
                  /\ pc' = "sent"
                  /\ UNCHANGED tries
          /\ UNCHANGED queue
    /\ UNCHANGED <<key, file, data_rows, account_number,
                   account_report, persisted_data, message_body, outcome,
                   db_vars, persist_ghosts>>

\* transaction_processor after send_message returned: the identifier is
\* printed and the function ends without a return statement.
finish ==
    /\ pc = "sent"
    /\ outcome' = Returned(None)
    /\ pc' = "done"
    /\ UNCHANGED <<local_vars, db_vars, queue, persist_ghosts,
                   sqs_ghosts>>

\* The committed tables an invocation may find: empty, or holding the batch
\* of an earlier invocation and its report.
EarlierBatch == << <<"4", "2024-03-02 08:30:00", "5.00", "tx0">> >>

\* 5.0
Five == [neg |-> FALSE, exp |-> 0, bits |-> <<1, 0, 1>>]

\* get_account_report(EarlierBatch, "4")
EarlierReport ==
    [account_number |-> Str(<<"4">>),
     total_balance |-> Five,
     average_debit_amount |-> Zero,
     average_credit_amount |-> Five,
     monthly_transactions |->
         <<[year |-> 2024,
            months |->
                <<[month |-> 3,
                   stats |-> [month_transactions_count |-> 1,
                              debit_transactions_count |-> 0,
                              debit_transaction_month_avg |-> Zero,
                              credit_transactions_count |-> 1,
                              credit_transaction_month_avg |-> Five]]>>]>>]

PriorTables ==
    { [transactions |-> <<>>, reports |-> <<>>],
      [transactions |-> transactions_to_insert(Str(<<"4">>), EarlierBatch),
       reports |-> <<report_to_insert(EarlierReport)>>] }

Init ==
    /\ pc = "idle"
    /\ key = <<>>
    /\ file = None
    /\ data_rows = <<>>
    /\ account_number = None
    /\ account_report = EmptyReport
    /\ persisted_data = None
    /\ message_body = None
    /\ tries = 1
    /\ message_id = None
    /\ outcome = Running
    /\ \E prior \in PriorTables :
          /\ transactions_table = prior.transactions
          /\ reports_table = prior.reports
          /\ db0 = prior
    /\ pending = NoPending
    /\ queue = <<>>
    /\ dbExecs = 0
    /\ txInserted = FALSE
    /\ reportFailed = FALSE
    /\ dbError = ""
    /\ handler = ""
    /\ sqsCalls = 0
    /\ sqsFailures = 0

\* The Lambda runtime delivers an event; lambda_handler takes bucket and key
\* from it and enters transaction_processor.
lambda_handler ==
    /\ pc = "idle"
    /\ \E k \in Keys : key' = k
    /\ pc' = "download"
    /\ UNCHANGED <<file, data_rows, account_number, account_report,
                   persisted_data, message_body, tries, message_id, outcome,
                   db_vars, queue, persist_ghosts, sqs_ghosts>>

Next ==
    \/ lambda_handler
    \/ download
    \/ normalize
    \/ persist_begin
    \/ exec_transactions
    \/ exec_report
    \/ commit
    \/ after_persist
    \/ send_message
    \/ finish

Spec == Init /\ [][Next]_vars

FairSpec == Spec /\ WF_vars(send_message)

\* ------------------------------------------------- get_account_number alone
\* The state of an invocation that has not started, without its inputs.
Quiescent ==
    /\ file = None
    /\ account_report = EmptyReport
    /\ persisted_data = None
    /\ message_body = None
    /\ tries = 1
    /\ message_id = None
    /\ outcome = Running
    /\ transactions_table = <<>>
    /\ reports_table = <<>>
    /\ db0 = [transactions |-> <<>>, reports |-> <<>>]
    /\ pending = NoPending
    /\ queue = <<>>
    /\ dbExecs = 0
    /\ txInserted = FALSE
    /\ reportFailed = FALSE
    /\ dbError = ""
    /\ handler = ""
    /\ sqsCalls = 0
    /\ sqsFailures = 0

KeyChars == {"4", "_", "-"}

\* Every key of up to MaxKeyLen characters.
KeySeqs == UNION { [1..n -> KeyChars] : n \in 0..MaxKeyLen }

KeyInit ==
    /\ pc = "key"
    /\ key \in KeySeqs
    /\ data_rows = <<>>
    /\ account_number = None
    /\ Quiescent

\* account_number = get_account_number(key)
derive_account_number ==
    /\ pc = "key"
    /\ account_number' = get_account_number(key)
    /\ pc' = "key_done"
    /\ UNCHANGED <<key, file, data_rows, account_report, persisted_data,
                   message_body, tries, message_id, outcome, db_vars, queue,
                   persist_ghosts, sqs_ghosts>>

KeyNext == derive_account_number

KeySpec == KeyInit /\ [][KeyNext]_vars

\* ------------------------------------------------- get_account_report alone
AggRows ==
    { <<"4", "2023-01-15 10:00:00", "-10.00", "a1">>,
      <<"4", "2023-01-15 10:00:00", "-20.00", "a2">>,
      <<"4", "2023-07-20 09:15:00", "5.00", "a3">>,
      <<"4", "2023-03-10 12:00:00", "-5.00", "a4">>,
      <<"4", "2023-01-15 10:00:00", "0.00", "a5">>,
      <<"4", "2024-03-02 08:30:00", "10.004", "a6">>,
      <<"4", "2023-01-15 10:00:00", "0.1", "a7">> }

\* Every batch of up to MaxBatch well-formed data rows.
AggBatches == UNION { [1..n -> AggRows] : n \in 0..MaxBatch }

AggInit ==
    /\ pc = "aggregate"
    /\ key = <<"4", "_", "t", "_", "r">>
    /\ data_rows \in AggBatches
    /\ account_number = Str(<<"4">>)
    /\ Quiescent

\* account_report = get_account_report(data_rows, account_number)
aggregate ==
    /\ pc = "aggregate"
    /\ account_report' = get_account_report(data_rows, account_number)
    /\ pc' = "aggregated"
    /\ UNCHANGED <<key, file, data_rows, account_number, persisted_data,
                   message_body, tries, message_id, outcome, db_vars, queue,
                   persist_ghosts, sqs_ghosts>>

AggNext == aggregate

AggSpec == AggInit /\ [][AggNext]_vars

\* ----------------------------------------------------------------- claims
PersistReturned == pc \in {"persisted", "send", "sent", "done"}

SendReturned == pc \in {"sent", "done"}

TablesUnchanged ==
    /\ transactions_table = db0.transactions
    /\ reports_table = db0.reports

BatchCommitted ==
    /\ ParametersError(data_rows, account_report) = ""
    /\ transactions_table =
           db0.transactions \o transactions_to_insert(account_number, data_rows)
    /\ reports_table = db0.reports \o <<report_to_insert(account_report)>>

\* C1: once persist_to_db has returned, either the transaction rows of the
\* batch and the report row are both in the committed tables or the tables
\* are as they were; when the report insert failed after the transactions
\* insert succeeded, no row of the batch is in the tables.
C1_AtomicPersistence ==
    PersistReturned =>
        /\ TablesUnchanged \/ BatchCommitted
        /\ (txInserted /\ reportFailed) => TablesUnchanged

C1_Witness ==
    /\ PersistReturned
    /\ txInserted
    /\ reportFailed
    /\ Len(data_rows) > 0
    /\ Len(db0.transactions) > 0
    /\ TablesUnchanged

\* C2 (as claimed): sqs.send_message is called only after persist_to_db
\* returned success.
C2_SendOnlyAfterPersisted ==
    sqsCalls > 0 => persisted_data = Bool(TRUE)

\* C3: send_message calls sqs.send_message at most 1 + max_tries times,
\* whatever calls fail, and every send_message that was entered returns.
C3_BoundedRetry ==
    /\ [](sqsCalls <= 1 + max_tries)
    /\ (pc = "send" ~> SendReturned)

C3_Witness ==
    /\ SendReturned
    /\ sqsCalls = 1 + max_tries
    /\ sqsFailures = 1 + max_tries

\* C4 (as claimed): after max_tries failed calls of sqs.send_message no
\* further call is made.
C4_StopsAfterMaxTriesFailures ==
    [][sqsFailures >= max_tries => sqsCalls' = sqsCalls]_vars

\* C4 (amended): after 1 + max_tries failed calls of sqs.send_message,
\* send_message has returned None and no further call is made.
C4_StopsAfterAllAttemptsFailed ==
    /\ [](sqsFailures >= 1 + max_tries =>
              SendReturned /\ message_id = None)
    /\ [][sqsFailures >= 1 + max_tries => sqsCalls' = sqsCalls]_vars

C4_Witness ==
    /\ pc = "done"
    /\ sqsFailures = 1 + max_tries
    /\ message_id = None
    /\ Len(queue) = 0

\* C5: when a call of sqs.send_message succeeds, send_message returns the
\* MessageId of that call and makes no further call, so the queue accepts at
\* most one message per dispatch.
C5_SuccessStopsRetrying ==
    /\ [](Len(queue) <= 1)
    /\ [](Len(queue) = 1 =>
              /\ SendReturned
              /\ message_id = queue[1].MessageId
              /\ queue[1].MessageBody = message_body)
    /\ [][Len(queue) = 1 => sqsCalls' = sqsCalls]_vars

C5_Witness ==
    /\ pc = "done"
    /\ sqsCalls = 2
    /\ sqsFailures = 1
    /\ Len(queue) = 1
    /\ message_id = queue[1].MessageId

\* C6: when every call of sqs.send_message failed, send_message returns None
\* without raising, the invocation does not end by an exception, and the rows
\* persist_to_db committed are still in the tables.
C6_SoftNotificationFailure ==
    (pc \in {"sent", "done", "raised"} /\ sqsCalls > 0 /\ sqsFailures = sqsCalls) =>
        /\ pc # "raised"
        /\ outcome.kind # "raise"
        /\ message_id = None
        /\ Truthy(persisted_data) => BatchCommitted

C6_Witness ==
    /\ pc = "done"
    /\ outcome = Returned(None)
    /\ sqsFailures = 1 + max_tries
    /\ message_id = None
    /\ persisted_data = Bool(TRUE)
    /\ Len(data_rows) > 0
    /\ BatchCommitted

\* C7 (as claimed): when the key does not split into exactly 3 segments, no
\* insert is executed and no message is sent.
C7_FailFastUnresolvableAccount ==
    (pc # "idle" /\ Len(Split(key)) # 3) =>
        /\ dbExecs = 0
        /\ sqsCalls = 0
        /\ Len(queue) = 0

\* C8 (as claimed): when the file yields no data rows, no report row is
\* written and no message is sent.
C8_FailFastEmptyBatch ==
    (file # None /\ Len(file.v) > 0 /\ Len(DataRows(file.v)) = 0) =>
        /\ reports_table = db0.reports
        /\ sqsCalls = 0
        /\ Len(queue) = 0

\* C9 (as claimed): when persist_to_db failed, the invocation ends with a
\* failure signal, which differs from the outcome of a run that persisted.
C9_PersistenceFailureSignalled ==
    (outcome # Running /\ PersistReturned /\ ~Truthy(persisted_data)) =>
        outcome.kind = "raise"

\* A data row that cannot be parsed into the expected fields.
Malformed(record) ==
    \/ ~HasField(record, 3)
    \/ ~FloatOk(Field(record, 2))
    \/ ~DateOk(Field(record, 1))

\* C10 (as claimed): when a data row is malformed, nothing of the batch is
\* committed and no message is sent.
C10_MalformedRowAbortsBatch ==
    (/\ file # None
     /\ Len(file.v) > 0
     /\ \E i \in 1..Len(DataRows(file.v)) : Malformed(DataRows(file.v)[i])) =>
        /\ TablesUnchanged
        /\ Len(queue) = 0

\* C11 (as claimed): persist_to_db returns True exactly when both inserts
\* ran without error and were committed, and False in every other case.
C11_ReturnsTrueOrFalse ==
    PersistReturned =>
        /\ persisted_data \in {Bool(TRUE), Bool(FALSE)}
        /\ persisted_data = Bool(TRUE) <=>
               (dbError = "" /\ handler = "" /\ BatchCommitted)

\* The except clauses that handle a connectivity failure: the one an insert's
\* OperationalError reaches and the one a failure to connect or to commit
\* reaches.
TransportHandlers == {InnerHandler("OperationalError"), OuterHandler}

\* C12 (as claimed): a constraint violation on write is rolled back and is
\* handled by another except clause than a connectivity failure.
C12_ConstraintViolationDistinct ==
    (PersistReturned /\ dbError = "IntegrityError") =>
        /\ TablesUnchanged
        /\ handler \notin TransportHandlers

\* A first row with a field that parses as a number.
HasNumericField(row) == \E i \in 1..Len(row) : FloatOk(row[i])

\* C13 (as claimed): the first row is left out of the data rows exactly when
\* none of its fields is numeric; a first row with a numeric field is the
\* first data row.
C13_HeaderDetection ==
    (pc \in {"persist", "exec_transactions", "exec_report", "commit",
             "persisted", "send", "sent", "done"}) =>
        data_rows = IF HasNumericField(Head(file.v)) THEN file.v
                    ELSE Tail(file.v)

\* C20: when get_account_number returns None, the account report is the
\* empty report, persist_to_db executes no insert and returns False, and
\* nothing is committed during the invocation.
C20_UnresolvedAccountPersistsNothing ==
    (pc # "idle" /\ get_account_number(key) = None) =>
        /\ dbExecs = 0
        /\ TablesUnchanged
        /\ PersistReturned =>
               /\ account_report = EmptyReport
               /\ persisted_data = Bool(FALSE)

C20_Witness ==
    /\ pc = "done"
    /\ get_account_number(key) = None
    /\ Len(data_rows) > 0
    /\ \A i \in 1..Len(data_rows) : HasField(data_rows[i], 3)
    /\ handler = OuterHandler
    /\ persisted_data = Bool(FALSE)
    /\ dbExecs = 0
    /\ TablesUnchanged

\* The positions of the separator in a key.
Underscores(k) == {i \in 1..Len(k) : k[i] = "_"}

\* C18: get_account_number returns the text before the first "_" when the
\* key has exactly two "_" (three segments) and None for every other key.
C18_AccountNumberDerivation ==
    pc = "key_done" =>
        account_number =
            IF Cardinality(Underscores(key)) = 2
            THEN Str(SubSeq(key, 1,
                            (CHOOSE i \in Underscores(key) :
                                 \A j \in Underscores(key) : i <= j) - 1))
            ELSE None

C18_Witness ==
    /\ pc = "key_done"
    /\ key = <<"4", "_", "-", "_", "4">>
    /\ account_number = Str(<<"4">>)

\* ---- the report of a batch (AggSpec)
\* The year and month of the timestamp of a record.
Stamp(record) == DateTable[Field(record, 1)]

\* The records of data_rows whose timestamp falls in a year and month.
InBucket(year, month) ==
    SelectSeq(data_rows,
              LAMBDA record : Stamp(record) = [year |-> year, month |-> month])

\* The buckets of a monthly breakdown: year, month and statistics.
Buckets(mt) ==
    UNION { { [year |-> mt[i].year,
               month |-> mt[i].months[j].month,
               stats |-> mt[i].months[j].stats] :
              j \in 1..Len(mt[i].months) } : i \in 1..Len(mt) }

RECURSIVE MonthCounts(_)
MonthCounts(months) ==
    IF Len(months) = 0 THEN 0
    ELSE Head(months).stats.month_transactions_count
             + MonthCounts(Tail(months))

\* The sum of month_transactions_count over all buckets.
RECURSIVE YearCounts(_)
YearCounts(mt) ==
    IF Len(mt) = 0 THEN 0
    ELSE MonthCounts(Head(mt).months) + YearCounts(Tail(mt))

\* C14: the monthly breakdown has exactly the years of the timestamps of the
\* batch, each year and each month of a year once; every record is counted
\* in the bucket of its timestamp and in no other, and the counts of all
\* buckets add up to the number of records.
C14_EveryYearEveryRecordOnce ==
    pc = "aggregated" =>
        LET mt == account_report.monthly_transactions
        IN /\ {mt[i].year : i \in 1..Len(mt)}
                  = {Stamp(data_rows[k]).year : k \in 1..Len(data_rows)}
           /\ \A i, j \in 1..Len(mt) : mt[i].year = mt[j].year => i = j
           /\ \A i \in 1..Len(mt) : \A j, k \in 1..Len(mt[i].months) :
                  mt[i].months[j].month = mt[i].months[k].month => j = k
           /\ \A k \in 1..Len(data_rows) : \E b \in Buckets(mt) :
                  Stamp(data_rows[k]) = [year |-> b.year, month |-> b.month]
           /\ \A b \in Buckets(mt) :
                  b.stats.month_transactions_count
                      = Len(InBucket(b.year, b.month))
           /\ YearCounts(mt) = Len(data_rows)

C14_Witness ==
    /\ pc = "aggregated"
    /\ Len(data_rows) = 3
    /\ {Stamp(data_rows[k]) : k \in 1..3}
           = {[year |-> 2023, month |-> 1], [year |-> 2023, month |-> 7],
              [year |-> 2024, month |-> 3]}
    /\ Len(account_report.monthly_transactions) = 2
    /\ YearCounts(account_report.monthly_transactions) = 3

\* C15: within each year of the monthly breakdown the months appear in
\* descending order of month number, whatever the order of the records.
C15_MonthsDescending ==
    pc = "aggregated" =>
        \A i \in 1..Len(account_report.monthly_transactions) :
            LET months == account_report.monthly_transactions[i].months
            IN \A j, k \in 1..Len(months) :
                   j < k => months[j].month > months[k].month

\* C16: total_balance is the sum of all amounts rounded to 2 decimal places,
\* and 0.0 for an empty batch.
C16_TotalBalanceRounded ==
    pc = "aggregated" =>
        account_report.total_balance =
            IF Len(data_rows) = 0 THEN Zero
            ELSE round2(SumFloats(Zero, data_rows))

\* The average of the amounts of records, 0.0 when there is none.
AverageOf(records) ==
    IF Len(records) = 0 THEN Zero ELSE round2(mean(records))

\* The records of a sequence with a negative and with a positive amount.
NegativeOf(records) == SelectSeq(records, LAMBDA record : Amount(record) < 0)
PositiveOf(records) == SelectSeq(records, LAMBDA record : Amount(record) > 0)

\* C17: for the whole batch and for each bucket the debit count and average
\* range over exactly the records with amount < 0 and the credit count and
\* average over exactly those with amount > 0; a record with amount 0 is in
\* neither but is counted in month_transactions_count; the average of an
\* empty subset is 0.0.
C17_DebitCreditClassification ==
    pc = "aggregated" =>
        /\ account_report.average_debit_amount
               = AverageOf(NegativeOf(data_rows))
        /\ account_report.average_credit_amount
               = AverageOf(PositiveOf(data_rows))
        /\ \A b \in Buckets(account_report.monthly_transactions) :
               LET records == InBucket(b.year, b.month)
               IN /\ b.stats.month_transactions_count = Len(records)
                  /\ b.stats.debit_transactions_count
                         = Len(NegativeOf(records))
                  /\ b.stats.debit_transaction_month_avg
                         = AverageOf(NegativeOf(records))
                  /\ b.stats.credit_transactions_count
                         = Len(PositiveOf(records))
                  /\ b.stats.credit_transaction_month_avg
                         = AverageOf(PositiveOf(records))

\* The batch -10.00, -20.00, 0.00 of one month: the debit average is -15.00,
\* the credit average 0.0, and the month counts three records, two debits.
C17_Witness ==
    /\ pc = "aggregated"
    /\ Len(data_rows) = 3
    /\ Amount(data_rows[1]) = -10000
    /\ Amount(data_rows[2]) = -20000
    /\ Amount(data_rows[3]) = 0
    /\ \A k \in 1..3 : Stamp(data_rows[k]) = [year |-> 2023, month |-> 1]
    /\ account_report.average_debit_amount = Float(-15000)
    /\ account_report.average_credit_amount = Zero
    /\ \E b \in Buckets(account_report.monthly_transactions) :
           /\ b.stats.month_transactions_count = 3
           /\ b.stats.debit_transactions_count = 2
           /\ b.stats.credit_transactions_count = 0
           /\ b.stats.debit_transaction_month_avg = Float(-15000)

====
